---- MODULE Spec2Model ----
(***************************************************************************)
(* Model of the polling pipeline of value-stock-screener:                  *)
(*   src/src/pipeline/data_poller.py  DataPoller.run / poll_tickers        *)
(*   src/src/pipeline/db.py           PostgreSQL (two tables, transaction) *)
(*   src/src/pipeline/api.py          StockDataAPI (fetch results)         *)
(* Ticker symbols are 1..NumTickers, dates are small naturals, and every   *)
(* float of the provider is an integer determined by (ticker, date).       *)
(***************************************************************************)
EXTENDS Integers, Sequences, FiniteSets, TLC

\* ------------------------------------------------------------------ bounds
NumTickers == 2
MaxClock == 2
MaxLeaked == 1
MaxRows == 1
MaxStamp == 4
MaxHistory == 3
MaxFetches == 3
MaxReads == 5

\* ------------------------------------------------------- program constants
max_retries == 5
base_wait_time == 5
base_ratelimit == 10

\* ratelimit_buffer = (0.0, 1.0): the two ends of random.uniform's range
ratelimit_buffer == <<0, 1>>

\* pandas' missing value: the outer join of pd.concat fills absent cells with it.
\* It is no value a ratio can take, zero included.
NaN == 0 - 999

VARIABLES
    runState,           \* DataPoller.run: "Polling" | "Backoff" | "Stopped" | "Raised"
    retries,            \* run's local retries
    wait_time,          \* run's local wait_time (0 before the first assignment)
    pc,                 \* position inside poll_tickers
    all_tickers_df,     \* the batch's ticker sequence
    i,                  \* position of the for loop in all_tickers_df
    bound,              \* which locals of poll_tickers are bound (assigned)
    pb_history_df, current_pb, pe_history_df, current_pe, concat_df,
    current_ratio_rows, \* list of snapshot rows
    hist,               \* table macrotrends_pe_pb_hist: set of rows
    cur,                \* table current_ratios: set of rows
    open_conns,         \* psycopg2 connections open
    clock,              \* pd.Timestamp.now(), counted in calls
    \* ---- observation of the run (no effect on the program)
    gap,                \* seconds slept since the latest fetch request of the batch
    ptrace,             \* per ticker, what this batch did for it
    poll_exit,          \* how the latest poll_tickers call ended
    failStreak,         \* batches failed in a row
    streakWaits,        \* backoff waits slept in the current failure streak
    firstHist,          \* (symbol, date) -> first row ever committed for the key
    lastCur,            \* symbol -> row of the latest committed snapshot store
    conflicts,          \* keys a committed call of the storage-only runs found
                        \* taken by a different row
    \* ---- pages/1_Stock Screener.py: the arguments of screen_stocks, as the
    \* caller holds them, and what the call computed
    historic_data,      \* the caller's history frame (argument df): sequence of rows
    current_data,       \* the caller's current-ratio frame (argument current_df)
    criteria,           \* the criteria dict
    screened_symbols,   \* line 104
    screen_returned,    \* a call of screen_stocks has returned
    strace,             \* per symbol group, what stock_meets_criteria evaluated
    \* ---- pipeline/api.py: the one StockDataAPI object of the process
    macrotrends_tickers,  \* the cached_property slot of all_macrotrends_tickers
    directory_fetches,    \* requests sent for the provider's ticker directory
    directory_reads       \* reads of self.all_macrotrends_tickers (line 53)

vars == <<runState, retries, wait_time, pc, all_tickers_df, i, bound,
          pb_history_df, current_pb, pe_history_df, current_pe, concat_df,
          current_ratio_rows, hist, cur, open_conns, clock,
          gap, ptrace, poll_exit, failStreak, streakWaits,
          firstHist, lastCur, conflicts,
          historic_data, current_data, criteria, screened_symbols,
          screen_returned, strace,
          macrotrends_tickers, directory_fetches, directory_reads>>

screenVars == <<historic_data, current_data, criteria, screened_symbols,
          screen_returned, strace>>

\* what the poller never touches
apiVars == <<macrotrends_tickers, directory_fetches, directory_reads>>

otherVars == <<conflicts, screenVars, apiVars>>

progVars == <<bound, pb_history_df, current_pb, pe_history_df, current_pe,
              concat_df, current_ratio_rows>>

Tickers == 1..NumTickers
Unset == 0 - 1

\* ------------------------------------------------------------ the provider
\* Date columns the provider's pages can carry, newest first as on the site.
\* A repeated date makes the index non-unique.
PBDateSeqs == {<<2, 1>>, <<1, 1>>}
PEDateSeqs == {<<2, 1>>, <<3, 2>>}

FullName(t) == 50 + t
PBValue(t, d) == 10 * t + d
PEValue(t, d) == 100 + 10 * t + d

\* api.get_pb_ratio_history: the frame (symbol, name, date, stock_price,
\* book_value_per_share, price_to_book_ratio) and the current P/B
PBFrame(t, ds) ==
    [k \in 1..Len(ds) |->
        [symbol |-> t, name |-> FullName(t), date |-> ds[k],
         stock_price |-> 200 + PBValue(t, ds[k]),
         book_value_per_share |-> 300 + PBValue(t, ds[k]),
         price_to_book_ratio |-> PBValue(t, ds[k])]]

CurrentPB(t) == 10 * t

\* api.get_pe_ratio_history: the frame (date, ttm_net_eps, pe_ratio), stock_price
\* dropped, and the current P/E
PEFrame(t, ds) ==
    [k \in 1..Len(ds) |->
        [date |-> ds[k],
         ttm_net_eps |-> 400 + PEValue(t, ds[k]),
         pe_ratio |-> PEValue(t, ds[k])]]

CurrentPE(t) == 100 + 10 * t


\* ------------------------------------------------- pandas: the merge step
Idx(df) == [k \in 1..Len(df) |-> df[k].date]

\* the elements of a sequence
Rows(all_data) == {all_data[k] : k \in 1..Len(all_data)}

IsUnique(s) == Cardinality({s[k] : k \in 1..Len(s)}) = Len(s)

\* DataFrame.sort_values('date', ascending=False): the place of row j, rows of
\* one date kept in their order
Rank(df, j) ==
    Cardinality({m \in 1..Len(df) : df[m].date > df[j].date})
        + Cardinality({m \in 1..(j - 1) : df[m].date = df[j].date}) + 1

SortDesc(df) ==
    [k \in 1..Len(df) |-> df[CHOOSE j \in 1..Len(df) : Rank(df, j) = k]]

\* a slip: the cells of the absent P/E side are filled with zero
JoinRow_ZeroFill(d, pbRows, peRows) ==
    LET hasPB == pbRows # {}
        hasPE == peRows # {}
        b == CHOOSE r \in pbRows : TRUE
        e == CHOOSE r \in peRows : TRUE
    IN  [date |-> d,
         symbol |-> IF hasPB THEN b.symbol ELSE NaN,
         name |-> IF hasPB THEN b.name ELSE NaN,
         stock_price |-> IF hasPB THEN b.stock_price ELSE NaN,
         book_value_per_share |-> IF hasPB THEN b.book_value_per_share ELSE NaN,
         price_to_book_ratio |-> IF hasPB THEN b.price_to_book_ratio ELSE NaN,
         ttm_net_eps |-> IF hasPE THEN e.ttm_net_eps ELSE 0,
         pe_ratio |-> IF hasPE THEN e.pe_ratio ELSE 0]

\* one row of pd.concat([pb.set_index('date'), pe.set_index('date')], axis=1)
\* .reset_index(): the P/B columns and the P/E columns side by side, NaN where
\* the side has no row for the date
JoinRow(d, pbRows, peRows) ==
    LET hasPB == pbRows # {}
        hasPE == peRows # {}
        b == CHOOSE r \in pbRows : TRUE
        e == CHOOSE r \in peRows : TRUE
    IN  [date |-> d,
         symbol |-> IF hasPB THEN b.symbol ELSE NaN,
         name |-> IF hasPB THEN b.name ELSE NaN,
         stock_price |-> IF hasPB THEN b.stock_price ELSE NaN,
         book_value_per_share |-> IF hasPB THEN b.book_value_per_share ELSE NaN,
         price_to_book_ratio |-> IF hasPB THEN b.price_to_book_ratio ELSE NaN,
         ttm_net_eps |-> IF hasPE THEN e.ttm_net_eps ELSE NaN,
         pe_ratio |-> IF hasPE THEN e.pe_ratio ELSE NaN]

RowsOn(df, d) == {df[k] : k \in {j \in 1..Len(df) : df[j].date = d}}

\* the dates of a set, newest first
DatesDesc(dates) ==
    [k \in 1..Cardinality(dates) |->
        CHOOSE d \in dates : Cardinality({x \in dates : x > d}) = k - 1]

\* lines 82-83: equal indexes are glued position by position; otherwise both
\* frames are reindexed on the union of the dates, which pandas refuses for an
\* index with a repeated date (the except of line 85 then catches the error)
ConcatHistory(pb, pe) ==
    IF Idx(pb) = Idx(pe)
    THEN [ok |-> TRUE,
          df |-> SortDesc([k \in 1..Len(pb) |-> JoinRow(pb[k].date, {pb[k]}, {pe[k]})])]
    ELSE IF ~IsUnique(Idx(pb)) \/ ~IsUnique(Idx(pe))
    THEN [ok |-> FALSE, df |-> <<>>]
    ELSE [ok |-> TRUE,
          df |-> [k \in 1..Cardinality(Rows(Idx(pb)) \cup Rows(Idx(pe))) |->
                    JoinRow(DatesDesc(Rows(Idx(pb)) \cup Rows(Idx(pe)))[k],
                            RowsOn(pb, DatesDesc(Rows(Idx(pb)) \cup Rows(Idx(pe)))[k]),
                            RowsOn(pe, DatesDesc(Rows(Idx(pb)) \cup Rows(Idx(pe)))[k]))]]

\* ---------------------------------------------------------------- storage
\* PostgreSQL.prepare_tuples over a list of frames: all_data
RECURSIVE AllData(_)
AllData(dataframes) ==
    IF dataframes = <<>> THEN <<>>
    ELSE Head(dataframes) \o AllData(Tail(dataframes))

HistKey(row) == <<row.symbol, row.date>>

\* a slip: the conflicting row is overwritten (DO UPDATE) instead of kept
InsertReportRow_Overwrite(table, row) ==
    {r \in table : <<r.symbol, r.date>> # <<row.symbol, row.date>>} \cup {row}

\* INSERT INTO macrotrends_pe_pb_hist ... ON CONFLICT (Symbol, Date) DO NOTHING
InsertReportRow(table, row) ==
    IF \E r \in table : HistKey(r) = HistKey(row) THEN table ELSE table \cup {row}

\* cursor.executemany(insert_query, all_data): one statement per tuple, in order
RECURSIVE ExecReport(_, _)
ExecReport(table, all_data) ==
    IF all_data = <<>> THEN table
    ELSE ExecReport(InsertReportRow(table, Head(all_data)), Tail(all_data))

\* a slip: Last_Update is left out of the DO UPDATE SET list
UpsertCurrentRow_StaleStamp(table, row) ==
    IF \E r \in table : r.symbol = row.symbol
    THEN {IF r.symbol = row.symbol
          THEN [r EXCEPT !.pb_ratio = row.pb_ratio, !.pe_ratio = row.pe_ratio]
          ELSE r : r \in table}
    ELSE table \cup {row}

\* INSERT INTO current_ratios ... ON CONFLICT (Symbol) DO UPDATE SET PB_Ratio,
\* PE_Ratio, Last_Update = EXCLUDED.*
UpsertCurrentRow(table, row) ==
    IF \E r \in table : r.symbol = row.symbol
    THEN {IF r.symbol = row.symbol
          THEN [r EXCEPT !.pb_ratio = row.pb_ratio, !.pe_ratio = row.pe_ratio,
                         !.last_update = row.last_update]
          ELSE r : r \in table}
    ELSE table \cup {row}

RECURSIVE ExecCurrent(_, _)
ExecCurrent(table, all_data) ==
    IF all_data = <<>> THEN table
    ELSE ExecCurrent(UpsertCurrentRow(table, Head(all_data)), Tail(all_data))

\* a slip: the rollback of line 44 is missing, the statements of a failed
\* call stay
Transaction_NoRollback(before, after, ok) == after

\* PostgreSQL.transaction: commit when the body ends normally, rollback and
\* re-raise otherwise
Transaction(before, after, ok) == IF ok THEN after ELSE before

\* store_report_dataframes / store_current_ratio_dataframes: the table after the call
StoreReportDataframes(table, dataframes, ok) ==
    Transaction(table, ExecReport(table, AllData(dataframes)), ok)

StoreCurrentRatioDataframes(table, dataframes, ok) ==
    Transaction(table, ExecCurrent(table, AllData(dataframes)), ok)


\* ------------------------------------------------------------- observers
\* first row committed per (symbol, date), over the rows of one committed call
RECURSIVE RecordFirst(_, _)
RecordFirst(f, all_data) ==
    IF all_data = <<>> THEN f
    ELSE LET k == HistKey(Head(all_data))
         IN  RecordFirst(IF k \in DOMAIN f THEN f ELSE f @@ (k :> Head(all_data)),
                         Tail(all_data))

\* latest row committed per symbol, over the rows of one committed call
RECURSIVE RecordLast(_, _)
RecordLast(f, all_data) ==
    IF all_data = <<>> THEN f
    ELSE LET r == Head(all_data)
         IN  RecordLast([s \in DOMAIN f \cup {r.symbol} |->
                            IF s = r.symbol THEN r ELSE f[s]],
                        Tail(all_data))

NoTrace == [pb |-> "none", pe |-> "none", merge |-> "none",
            report |-> "none", current |-> "none"]

\* ------------------------------------------------------------------- Init
PollerInit ==
    /\ runState = "Polling"
    /\ retries = 0
    /\ wait_time = 0
    /\ pc = "run"
    /\ all_tickers_df = <<>>
    /\ i = 0
    /\ bound = {}
    /\ pb_history_df = <<>>
    /\ current_pb = NaN
    /\ pe_history_df = <<>>
    /\ current_pe = NaN
    /\ concat_df = <<>>
    /\ current_ratio_rows = <<>>
    /\ hist = {}
    /\ cur = {}
    /\ open_conns = 0
    /\ clock = 0
    /\ gap = Unset
    /\ ptrace = [t \in Tickers |-> NoTrace]
    /\ poll_exit = "none"
    /\ failStreak = 0
    /\ streakWaits = <<>>
    /\ firstHist = <<>>
    /\ lastCur = <<>>
    /\ conflicts = {}

\* the page has not called screen_stocks
ScreenIdle ==
    /\ historic_data = <<>>
    /\ current_data = <<>>
    /\ criteria = [years_pb_history |-> 7, max_current_pb_ratio |-> 2,
                   only_positive_pb |-> TRUE, pb_margin_of_safety |-> 100,
                   max_current_pe_ratio |-> 6, years_positive_pe_history |-> 7]
    /\ screened_symbols = {}
    /\ screen_returned = FALSE
    /\ strace = <<>>

\* StockDataAPI(): nothing is cached yet
ApiInit ==
    /\ macrotrends_tickers = [cached |-> FALSE, value |-> {}]
    /\ directory_fetches = 0
    /\ directory_reads = 0

Init == PollerInit /\ ScreenIdle /\ ApiInit

\* ------------------------------------------------------- DataPoller.run
\* line 130: if retries > max_retries
Exhausted(r) == r > max_retries

\* a slip: the wait grows linearly with the retries
WaitTime_Linear(r) == base_wait_time * 2 * r

\* line 133: wait_time = base_wait_time * (2 ** retries)
WaitTime(r) == base_wait_time * (2 ^ r)

\* a slip: the reset of line 123 is missing
RetriesAfterSuccess_Kept(r) == r

\* line 123: retries = 0
RetriesAfterSuccess(r) == 0

\* do_sleep: base_ratelimit + random.uniform(*ratelimit_buffer)
SleepTimes == {base_ratelimit + j : j \in ratelimit_buffer[1]..ratelimit_buffer[2]}

\* the frame of poll_tickers is dropped when the call ends (and with it what
\* was observed of the batch)
DropFrame ==
    /\ all_tickers_df' = <<>>
    /\ ptrace' = [t \in Tickers |-> NoTrace]
    /\ gap' = Unset
    /\ i' = 0
    /\ bound' = {}
    /\ pb_history_df' = <<>>
    /\ current_pb' = NaN
    /\ pe_history_df' = <<>>
    /\ current_pe' = NaN
    /\ concat_df' = <<>>
    /\ current_ratio_rows' = <<>>

\* lines 127-135: an Exception escaped poll_tickers
RunExcept(kind) ==
    /\ poll_exit' = kind
    /\ retries' = retries + 1
    /\ failStreak' = failStreak + 1
    /\ streakWaits' = streakWaits
    /\ IF Exhausted(retries + 1)
       THEN /\ runState' = "Stopped"
            /\ pc' = "done"
            /\ wait_time' = wait_time
       ELSE /\ runState' = "Backoff"
            /\ pc' = "backoff"
            /\ wait_time' = WaitTime(retries + 1)

\* line 135: time.sleep(wait_time) returns and the while loop starts over
BackoffSleep ==
    /\ UNCHANGED otherVars
    /\ runState = "Backoff"
    /\ pc = "backoff"
    /\ runState' = "Polling"
    /\ pc' = "run"
    /\ streakWaits' = Append(streakWaits, wait_time)
    /\ wait_time' = 0    \* dead until line 133 assigns it again
    /\ UNCHANGED <<retries, all_tickers_df, i, progVars, hist, cur,
                   open_conns, clock, gap, ptrace, poll_exit,
                   failStreak, firstHist, lastCur>>


\* --------------------------------------------------- DataPoller.poll_tickers
\* get_exchange_tickers(randomized=True): the tickers in a random order
TickerOrders == {s \in [1..NumTickers -> Tickers] : \A a, b \in 1..NumTickers : s[a] = s[b] => a = b}

Ticker == all_tickers_df[i]

SetTrace(t, field, value) == ptrace' = [ptrace EXCEPT ![t][field] = value]

\* lines 35-41: run calls poll_tickers, which resolves the tickers first
GetExchangeTickers ==
    /\ UNCHANGED otherVars
    /\ runState = "Polling"
    /\ pc = "run"
    /\ \/ /\ clock + NumTickers <= MaxClock
          /\ \E order \in TickerOrders : all_tickers_df' = order
          /\ pc' = "enter"
          /\ poll_exit' = "none"
          /\ UNCHANGED <<runState, retries, wait_time, i, progVars, failStreak,
                         streakWaits, ptrace, gap>>
       \/ /\ RunExcept("Exception")
          /\ DropFrame
    /\ UNCHANGED <<hist, cur, open_conns, clock, firstHist, lastCur>>

\* lines 44-48, db.py 167-172: PostgreSQL.__enter__ (connect, create both tables)
Enter ==
    /\ UNCHANGED otherVars
    /\ runState = "Polling"
    /\ pc = "enter"
    /\ \/ /\ open_conns' = open_conns + 1
          /\ pc' = "for"
          /\ i' = 1
          /\ UNCHANGED <<runState, retries, wait_time, bound, pb_history_df,
                         current_pb, pe_history_df, current_pe, concat_df,
                         current_ratio_rows, poll_exit, failStreak, streakWaits,
                         all_tickers_df, ptrace, gap>>
       \/ \* connect raises: nothing was opened
          /\ RunExcept("Exception")
          /\ DropFrame
          /\ UNCHANGED open_conns
       \/ \* a CREATE TABLE raises after connect: __exit__ is not called
          /\ open_conns < MaxLeaked
          /\ RunExcept("Exception")
          /\ DropFrame
          /\ open_conns' = open_conns + 1
    /\ UNCHANGED <<hist, cur, clock, firstHist, lastCur>>

\* line 53: the for loop takes the next ticker
ForNext ==
    /\ UNCHANGED otherVars
    /\ runState = "Polling"
    /\ pc = "for"
    /\ i <= Len(all_tickers_df)
    /\ pc' = "pb"
    /\ UNCHANGED <<runState, retries, wait_time, all_tickers_df, i, progVars, hist,
                   cur, open_conns, clock, gap, ptrace, poll_exit,
                   failStreak, streakWaits, firstHist, lastCur>>

\* the loop is over: __exit__ closes the connection, poll_tickers returns and
\* run resets retries (line 123)
PollReturn ==
    /\ UNCHANGED otherVars
    /\ runState = "Polling"
    /\ pc = "for"
    /\ i > Len(all_tickers_df)
    /\ open_conns' = open_conns - 1
    /\ DropFrame
    /\ poll_exit' = "returned"
    /\ retries' = RetriesAfterSuccess(retries)
    /\ failStreak' = 0
    /\ streakWaits' = <<>>
    /\ pc' = "run"
    /\ UNCHANGED <<runState, wait_time, hist, cur, clock, firstHist, lastCur>>

\* a slip: the continue of line 65 is missing and the loop falls through to
\* the P/E fetch
OnPBFailure_FallThrough == [pc |-> "pe", step |-> 0, sleep |-> 0]

\* lines 62-65: where the loop goes after a failed P/B fetch, and the sleep on
\* that path (none)
OnPBFailure == [pc |-> "for", step |-> 1, sleep |-> 0]

\* lines 55-65: the P/B fetch
FetchPB ==
    /\ UNCHANGED otherVars
    /\ runState = "Polling"
    /\ pc = "pb"
    /\ \/ \E ds \in PBDateSeqs, s \in SleepTimes :
             /\ pb_history_df' = PBFrame(Ticker, ds)
             /\ current_pb' = CurrentPB(Ticker)
             /\ bound' = bound \cup {"pb_history_df", "current_pb"}
             /\ gap' = s
             /\ SetTrace(Ticker, "pb", "ok")
             /\ pc' = "pe"
             /\ i' = i
       \/ /\ SetTrace(Ticker, "pb", "fail")
          /\ gap' = OnPBFailure.sleep
          /\ pc' = OnPBFailure.pc
          /\ i' = i + OnPBFailure.step
          /\ UNCHANGED <<pb_history_df, current_pb, bound>>
    /\ UNCHANGED <<runState, retries, wait_time, all_tickers_df, pe_history_df,
                   current_pe, concat_df, current_ratio_rows, hist, cur, open_conns,
                   clock, poll_exit, failStreak, streakWaits, firstHist, lastCur>>

\* lines 68-78: the P/E fetch; both paths sleep
FetchPE ==
    /\ UNCHANGED otherVars
    /\ runState = "Polling"
    /\ pc = "pe"
    /\ \E s \in SleepTimes : gap' = s
    /\ \/ \E ds \in PEDateSeqs :
             /\ pe_history_df' = PEFrame(Ticker, ds)
             /\ current_pe' = CurrentPE(Ticker)
             /\ bound' = bound \cup {"pe_history_df", "current_pe"}
             /\ SetTrace(Ticker, "pe", "ok")
       \/ /\ SetTrace(Ticker, "pe", "fail")
          /\ UNCHANGED <<pe_history_df, current_pe, bound>>
    /\ pc' = "concat"
    /\ UNCHANGED <<runState, retries, wait_time, all_tickers_df, i, pb_history_df,
                   current_pb, concat_df, current_ratio_rows, hist, cur, open_conns,
                   clock, poll_exit, failStreak, streakWaits, firstHist, lastCur>>

\* lines 81-86: the merge; a NameError (pe_history_df never assigned in this
\* call) or a pandas error is caught and concat_df keeps what it had
Concat ==
    /\ UNCHANGED otherVars
    /\ runState = "Polling"
    /\ pc = "concat"
    /\ LET m == ConcatHistory(pb_history_df, pe_history_df)
       IN  IF "pe_history_df" \in bound /\ m.ok
           THEN /\ concat_df' = m.df
                /\ bound' = bound \cup {"concat_df"}
                /\ SetTrace(Ticker, "merge", "ok")
           ELSE /\ UNCHANGED <<concat_df, bound>>
                /\ SetTrace(Ticker, "merge", "fail")
    /\ pc' = "append"
    /\ UNCHANGED <<runState, retries, wait_time, all_tickers_df, i, pb_history_df,
                   current_pb, pe_history_df, current_pe, current_ratio_rows, hist,
                   cur, open_conns, clock, gap, poll_exit, failStreak,
                   streakWaits, firstHist, lastCur>>

\* lines 90-95: the snapshot row; reading current_pe before any P/E fetch of
\* this call succeeded raises NameError outside every try of poll_tickers, so
\* __exit__ closes the connection and the error reaches run
AppendCurrent ==
    /\ UNCHANGED otherVars
    /\ runState = "Polling"
    /\ pc = "append"
    /\ clock' = clock + 1
    /\ IF "current_pe" \in bound
       THEN /\ current_ratio_rows' = Append(current_ratio_rows,
                    [symbol |-> Ticker, last_update |-> clock + 1,
                     pb_ratio |-> current_pb, pe_ratio |-> current_pe])
            /\ pc' = "store_report"
            /\ UNCHANGED <<runState, retries, wait_time, i, bound, pb_history_df,
                           current_pb, pe_history_df, current_pe, concat_df,
                           open_conns, poll_exit, failStreak, streakWaits,
                           all_tickers_df, gap, ptrace>>
       ELSE /\ RunExcept("NameError")
            /\ DropFrame
            /\ open_conns' = open_conns - 1
    /\ UNCHANGED <<hist, cur, firstHist, lastCur>>

\* lines 98-104: the history write, in its own try
StoreReport ==
    /\ UNCHANGED otherVars
    /\ runState = "Polling"
    /\ pc = "store_report"
    /\ IF "concat_df" \in bound
       THEN \E ok \in BOOLEAN :
               /\ hist' = StoreReportDataframes(hist, <<concat_df>>, ok)
               /\ firstHist' = IF ok THEN RecordFirst(firstHist, concat_df)
                               ELSE firstHist
               /\ SetTrace(Ticker, "report", IF ok THEN "ok" ELSE "fail")
       ELSE /\ UNCHANGED <<hist, firstHist>>
            /\ SetTrace(Ticker, "report", "unbound")
    /\ pc' = "store_current"
    /\ UNCHANGED <<runState, retries, wait_time, all_tickers_df, i, progVars, cur,
                   open_conns, clock, gap, poll_exit, failStreak,
                   streakWaits, lastCur>>

\* lines 106-112: the snapshot write, in its own try; the list is cleared
StoreCurrent ==
    /\ UNCHANGED otherVars
    /\ runState = "Polling"
    /\ pc = "store_current"
    /\ \E ok \in BOOLEAN :
          /\ cur' = StoreCurrentRatioDataframes(cur, <<current_ratio_rows>>, ok)
          /\ lastCur' = IF ok THEN RecordLast(lastCur, current_ratio_rows)
                        ELSE lastCur
          /\ SetTrace(Ticker, "current", IF ok THEN "ok" ELSE "fail")
    /\ current_ratio_rows' = <<>>
    /\ i' = i + 1
    /\ pc' = "for"
    /\ UNCHANGED <<runState, retries, wait_time, all_tickers_df, bound,
                   pb_history_df, current_pb, pe_history_df, current_pe, concat_df,
                   hist, open_conns, clock, gap, poll_exit, failStreak,
                   streakWaits, firstHist>>

\* lines 124-126 and 135: KeyboardInterrupt. Raised under the try of run it is
\* caught and run returns; raised by time.sleep in the except block of line
\* 127 it is inside no try and leaves run
KeyboardInterrupt ==
    /\ UNCHANGED otherVars
    /\ runState \in {"Polling", "Backoff"}
    /\ runState' = IF runState = "Polling" THEN "Stopped" ELSE "Raised"
    /\ pc' = "done"
    /\ poll_exit' = IF runState = "Polling" THEN "KeyboardInterrupt" ELSE poll_exit
    /\ open_conns' = IF pc \in {"for", "pb", "pe", "concat", "append",
                                "store_report", "store_current"}
                     THEN open_conns - 1 ELSE open_conns
    /\ DropFrame
    /\ UNCHANGED <<retries, wait_time, hist, cur, clock, failStreak, streakWaits,
                   firstHist, lastCur>>

Next ==
    \/ GetExchangeTickers
    \/ Enter
    \/ ForNext
    \/ PollReturn
    \/ FetchPB
    \/ FetchPE
    \/ Concat
    \/ AppendCurrent
    \/ StoreReport
    \/ StoreCurrent
    \/ BackoffSleep
    \/ KeyboardInterrupt

Spec == Init /\ [][Next]_vars

\* the interpreter keeps running the one thread of Poller.py: a step that can
\* be taken is eventually taken
FairSpec == Spec /\ WF_vars(Next)


\* ------------------------------------------- storage alone, any caller
\* Rows a caller can hand to store_report_dataframes: every row of every
\* frame the merge step can produce for a ticker
HistRows ==
    UNION {LET m == ConcatHistory(PBFrame(t, pds), PEFrame(t, eds))
           IN  IF m.ok THEN {m.df[k] : k \in 1..Len(m.df)} ELSE {}
           : t \in Tickers, pds \in PBDateSeqs, eds \in PEDateSeqs}

\* Snapshot rows as line 90 builds them, stamped with the time of the call
CurrentRows(now) ==
    {[symbol |-> t, last_update |-> now, pb_ratio |-> CurrentPB(t),
      pe_ratio |-> CurrentPE(u)] : t \in Tickers, u \in Tickers}

FramesOf(rows, n) == UNION {[1..k -> rows] : k \in 0..n}

\* the argument of a store call: one frame of up to MaxRows rows, or two
\* frames of up to one row each
CallsOf(rows) ==
    {<<f>> : f \in FramesOf(rows, MaxRows)}
        \cup {<<f, g>> : f \in FramesOf(rows, 1), g \in FramesOf(rows, 1)}

\* db.py 84-98: one call of store_report_dataframes, committed or rolled back
CallStoreReport ==
    \E dataframes \in CallsOf(HistRows), ok \in BOOLEAN :
        /\ hist' = StoreReportDataframes(hist, dataframes, ok)
        /\ firstHist' = IF ok THEN RecordFirst(firstHist, AllData(dataframes))
                        ELSE firstHist
        /\ conflicts' = IF ok
                        THEN conflicts \cup
                             {HistKey(q) : q \in {r \in Rows(AllData(dataframes)) :
                                 \E h \in hist : HistKey(h) = HistKey(r) /\ h # r}}
                        ELSE conflicts
        /\ UNCHANGED <<runState, retries, wait_time, pc, all_tickers_df, i,
                       progVars, cur, open_conns, clock, gap, ptrace, poll_exit,
                       failStreak, streakWaits, lastCur, screenVars, apiVars>>

StoreReportSpec == Init /\ [][CallStoreReport]_vars

\* db.py 134-151: one call of store_current_ratio_dataframes
CallStoreCurrent ==
    /\ clock < MaxStamp
    /\ clock' = clock + 1
    /\ \E dataframes \in CallsOf(CurrentRows(clock + 1)), ok \in BOOLEAN :
          /\ cur' = StoreCurrentRatioDataframes(cur, dataframes, ok)
          /\ lastCur' = IF ok THEN RecordLast(lastCur, AllData(dataframes))
                        ELSE lastCur
          /\ conflicts' = IF ok
                          THEN conflicts \cup
                               {q.symbol : q \in {r \in Rows(AllData(dataframes)) :
                                   \E c \in cur : c.symbol = r.symbol /\ c # r}}
                          ELSE conflicts
    /\ UNCHANGED <<runState, retries, wait_time, pc, all_tickers_df, i, progVars,
                   hist, open_conns, gap, ptrace, poll_exit, failStreak,
                   streakWaits, firstHist, screenVars, apiVars>>

StoreCurrentSpec == Init /\ [][CallStoreCurrent]_vars


\* ---------------------------------------- pages/1_Stock Screener.py: inputs
\* datetime.now().year
NowYear == 13

\* dates are days; a year has 365 of them
Date(y, day) == 365 * y + day
Year(d) == d \div 365

\* rows the history table can hold: <<symbol, date, price_to_book_ratio,
\* pe_ratio>> (the columns screen_stocks does not read are left out), in no
\* chronological order; NaN is a cell the provider's page left empty
HistCatalog ==
    << <<1, Date(12, 270), 1, 5>>,    <<1, Date(11, 270), 3, 5>>,
       <<1, Date(12, 270), 3, 5>>,    <<1, Date(12, 270), NaN, 5>>,
       <<1, Date(12, 270), 1, NaN>>,  <<1, Date(12, 270), 0, 5>>,
       <<1, Date(12, 90), 1, 5>>,     <<1, Date(12, 90), 3, 5>>,
       <<1, Date(11, 270), 1, 5>>,    <<1, Date(11, 270), 1, 0 - 1>>,
       <<1, Date(9, 90), 3, 5>>,      <<1, Date(9, 90), 1, 5>>,
       <<1, Date(2, 270), 1, 5>>,     <<1, Date(13, 90), 1, 5>>,
       <<2, Date(12, 270), 1, 5>> >>

HistoryRow(c) ==
    [symbol |-> c[1], date |-> c[2], price_to_book_ratio |-> c[3], pe_ratio |-> c[4]]

\* the k-th smallest element of a set of numbers
Nth(I, k) == CHOOSE x \in I : Cardinality({y \in I : y < x}) = k - 1

\* the table holds one row per (symbol, date): up to MaxHistory catalog rows
Picks ==
    {I \in SUBSET (1..Len(HistCatalog)) :
        /\ Cardinality(I) <= MaxHistory
        /\ \A a, b \in I :
              (HistCatalog[a][1] = HistCatalog[b][1]
                  /\ HistCatalog[a][2] = HistCatalog[b][2]) => a = b}

\* the frame load_data returns for a pick, in catalog order or reversed
HistoryFrame(I, reversed) ==
    [k \in 1..Cardinality(I) |->
        HistoryRow(HistCatalog[Nth(I, IF reversed THEN Cardinality(I) - k + 1 ELSE k)])]

SnapshotRow(sym, pb, pe) ==
    [symbol |-> sym, last_update |-> 1, pb_ratio |-> pb, pe_ratio |-> pe]

\* current_ratios as loaded: no row, a row of symbol 1, or rows of both
SnapshotFrames ==
    {<<>>, <<SnapshotRow(2, 1, 5), SnapshotRow(1, 2, 5)>>}
        \cup {<<SnapshotRow(1, pb, 5)>> : pb \in {1, 3, NaN}}

\* the sidebar's criteria; pb_margin_of_safety in hundredths
CriteriaSet ==
    [years_pb_history : {1, 2}, max_current_pb_ratio : {3, 4},
     only_positive_pb : BOOLEAN, pb_margin_of_safety : {100},
     max_current_pe_ratio : {6}, years_positive_pe_history : {1, 2}]

ScreenInit ==
    /\ PollerInit
    /\ ApiInit
    /\ \E I \in Picks, reversed \in BOOLEAN : historic_data = HistoryFrame(I, reversed)
    /\ current_data \in SnapshotFrames
    /\ criteria \in CriteriaSet
    /\ screened_symbols = {}
    /\ screen_returned = FALSE
    /\ strace = <<>>


\* -------------------------------------------------- floats and pandas series
\* a float is <<numerator, denominator>>, the denominator 0 for NaN
Float(v) == IF v = NaN THEN <<0, 0>> ELSE <<v, 1>>
IsNaN(q) == q[2] = 0

\* comparisons with NaN are False
FloatLess(p, q) == ~IsNaN(p) /\ ~IsNaN(q) /\ p[1] * q[2] < q[1] * p[2]
FloatGreater(p, q) == FloatLess(q, p)
FloatGreaterEq(p, q) == ~IsNaN(p) /\ ~IsNaN(q) /\ p[1] * q[2] >= q[1] * p[2]

\* Python's min(a, b): b when b < a, else a
PyMin(a, b) == IF FloatLess(b, a) THEN b ELSE a

\* criteria['pb_margin_of_safety'] * q, the margin in hundredths
TimesMargin(margin, q) == <<margin * q[1], 100 * q[2]>>

RECURSIVE SumPB(_)
SumPB(rows) ==
    IF rows = <<>> THEN 0
    ELSE (IF Head(rows).price_to_book_ratio = NaN THEN 0
          ELSE Head(rows).price_to_book_ratio) + SumPB(Tail(rows))

\* Series.mean() of price_to_book_ratio: NaN cells are skipped, NaN when none is left
MeanPB(rows) ==
    <<SumPB(rows),
      Cardinality({k \in 1..Len(rows) : rows[k].price_to_book_ratio # NaN})>>

\* the rows at the places I, in their order
Sub(frame, I) == [k \in 1..Cardinality(I) |-> frame[Nth(I, k)]]

RankAsc(frame, j) ==
    Cardinality({m \in 1..Len(frame) : frame[m].date < frame[j].date})
        + Cardinality({m \in 1..(j - 1) : frame[m].date = frame[j].date}) + 1

\* DataFrame.sort_values('date')
SortAsc(frame) ==
    [k \in 1..Len(frame) |-> frame[CHOOSE j \in 1..Len(frame) : RankAsc(frame, j) = k]]

MaxOf(S) == CHOOSE x \in S : \A y \in S : y <= x
MinOf(S) == CHOOSE x \in S : \A y \in S : x <= y

\* ------------------------------------------------- calculate_avg_pb_ratios
\* lines 21-32: the averages over the rows later than three years before the
\* latest row, and over all rows
calculate_avg_pb_ratios(stock_data) ==
    LET last_q_report_date == MaxOf(Rows(Idx(stock_data)))
        date_three_years_ago == last_q_report_date - 3 * 365
        avg_calc_rows == Sub(stock_data, {k \in 1..Len(stock_data) :
                                  stock_data[k].date > date_three_years_ago})
    IN  [avg_pb_3_year |-> MeanPB(avg_calc_rows),
         avg_pb_max_year |-> MeanPB(stock_data),
         available_years |-> (Year(last_q_report_date)
                                - Year(MinOf(Rows(Idx(stock_data))))) + 1]


\* ------------------------------------------------------------ screen_stocks
\* lines 45-46: df['date'] = ..., df['year'] = ... on the caller's frame
WithYear(row) == [year |-> Year(row.date)] @@ row
Annotated(frame) == [k \in 1..Len(frame) |-> WithYear(frame[k])]

\* lines 49-55: the current year is removed, then what is ten years or more
\* older than the most recent year left
Windowed(frame) ==
    LET past == Sub(frame, {k \in 1..Len(frame) : frame[k].year # NowYear})
    IN  IF past = <<>> THEN <<>>
        ELSE LET most_recent_year == MaxOf({past[k].year : k \in 1..Len(past)})
             IN  Sub(past, {k \in 1..Len(past) : past[k].year > most_recent_year - 10})

\* df.groupby('symbol')
GroupSymbols(frame) == {frame[k].symbol : k \in 1..Len(frame)}
Group(frame, sym) == Sub(frame, {k \in 1..Len(frame) : frame[k].symbol = sym})

\* lines 63-68: the rows of current_df for the symbol; .iloc[0] raises on none
SnapshotRows(sym) ==
    Sub(current_data, {k \in 1..Len(current_data) : current_data[k].symbol = sym})

\* a slip: the years are not told apart, every row counts
TooFewYears_Rows(group) == Len(group) < criteria.years_pb_history

\* line 71: group['year'].nunique() < criteria['years_pb_history']
TooFewYears(group) ==
    Cardinality({group[k].year : k \in 1..Len(group)}) < criteria.years_pb_history

\* a slip: the toggle is not consulted
NonPositivePB_Always(group) ==
    \E k \in 1..Len(group) : FloatGreaterEq(<<0, 1>>, Float(group[k].price_to_book_ratio))

\* lines 75-78: only when the toggle is set, (pb_ratios <= 0).any()
NonPositivePB(group) ==
    /\ criteria.only_positive_pb
    /\ \E k \in 1..Len(group) : FloatGreaterEq(<<0, 1>>, Float(group[k].price_to_book_ratio))

\* a slip: the group is read in the order it came, without sorting
LatestRow_Unsorted(group) == group[Len(group)]

\* lines 81, 97: group.sort_values('date').iloc[-1]
LatestRow(group) == SortAsc(group)[Len(group)]

\* a slip: the ceiling is tested with >
AboveCeiling_Strict(latest, ceiling) == FloatGreater(Float(latest), Float(ceiling))

\* lines 82, 98: latest >= criteria['max_current_..._ratio']
AboveCeiling(latest, ceiling) == FloatGreaterEq(Float(latest), Float(ceiling))

\* line 87: latest_pb_ratio > pb_margin_of_safety * min(avg_pb_3_year, avg_pb_max_year)
AboveMargin(latest, avgs) ==
    FloatGreater(Float(latest),
                 TimesMargin(criteria.pb_margin_of_safety,
                             PyMin(avgs.avg_pb_3_year, avgs.avg_pb_max_year)))

\* lines 91-92: group sorted newest first, then groupby('year').first(): per
\* year and column the first cell that is not null
FirstPEOfYear(group, y) ==
    LET sorted == SortDesc(group)
        cells == {k \in 1..Len(sorted) : sorted[k].year = y /\ sorted[k].pe_ratio # NaN}
    IN  IF cells = {} THEN NaN ELSE sorted[MinOf(cells)].pe_ratio

\* line 93: (pe_ratios > 0).sum()
PositivePEYears(group) ==
    Cardinality({y \in {group[k].year : k \in 1..Len(group)} :
                    FloatGreater(Float(FirstPEOfYear(group, y)), <<0, 1>>)})


\* lines 57-101: what the checks of one symbol group evaluate, and valid
stock_meets_criteria(group) ==
    LET snapshot == SnapshotRows(group[1].symbol)
        use_current_ratios == snapshot # <<>>
        latest_pb_ratio == IF use_current_ratios THEN snapshot[1].pb_ratio
                           ELSE LatestRow(group).price_to_book_ratio
        avgs == calculate_avg_pb_ratios(group)
        latest_pe_ratio == IF use_current_ratios THEN snapshot[1].pe_ratio
                           ELSE LatestRow(group).pe_ratio
        failed == (IF TooFewYears(group) THEN {"years_pb_history"} ELSE {})
            \cup (IF NonPositivePB(group) THEN {"only_positive_pb"} ELSE {})
            \cup (IF AboveCeiling(latest_pb_ratio, criteria.max_current_pb_ratio)
                  THEN {"max_current_pb_ratio"} ELSE {})
            \cup (IF AboveMargin(latest_pb_ratio, avgs)
                  THEN {"pb_margin_of_safety"} ELSE {})
            \cup (IF PositivePEYears(group) < criteria.years_positive_pe_history
                  THEN {"years_positive_pe_history"} ELSE {})
            \cup (IF AboveCeiling(latest_pe_ratio, criteria.max_current_pe_ratio)
                  THEN {"max_current_pe_ratio"} ELSE {})
    IN  [group |-> group,
         use_current_ratios |-> use_current_ratios,
         latest_pb_ratio |-> latest_pb_ratio,
         latest_pe_ratio |-> latest_pe_ratio,
         avg_pb_3_year |-> avgs.avg_pb_3_year,
         avg_pb_max_year |-> avgs.avg_pb_max_year,
         failed |-> failed,
         valid |-> failed = {}]

pollerVars == <<runState, retries, wait_time, pc, all_tickers_df, i, progVars,
                hist, cur, open_conns, clock, gap, ptrace, poll_exit,
                failStreak, streakWaits, firstHist, lastCur, conflicts>>

\* lines 36-111: one call screen_stocks(historic_data, current_data, criteria)
Screen ==
    /\ historic_data' = Annotated(historic_data)
    /\ LET windowed == Windowed(Annotated(historic_data))
       IN  /\ strace' = [sym \in GroupSymbols(windowed) |->
                            stock_meets_criteria(Group(windowed, sym))]
           /\ screened_symbols' = {sym \in GroupSymbols(windowed) :
                                     stock_meets_criteria(Group(windowed, sym)).valid}
    /\ screen_returned' = TRUE
    /\ UNCHANGED <<current_data, criteria, pollerVars, apiVars>>

ScreenSpec == ScreenInit /\ [][Screen]_vars


\* ------------------------------------ pipeline/api.py: get_exchange_tickers
ExchangeLists == {<<"nasdaq", "nyse">>, <<"nasdaq">>, <<"amex">>}

\* lines 25-43: any other exchange raises NotImplementedError
KnownExchanges(exchanges) ==
    \A k \in 1..Len(exchanges) : exchanges[k] \in {"nasdaq", "nyse"}

\* the orders filtered_df.sample(frac=1) can give to a set of tickers
SampleOrders(S) ==
    {o \in [1..Cardinality(S) -> S] : \A a, b \in 1..Cardinality(S) : o[a] = o[b] => a = b}

\* a slip: a plain property, computed at every read
NeedsFetch_Always(slot) == TRUE

\* line 143: functools.cached_property computes when the instance holds no value yet
NeedsFetch(slot) == ~slot.cached

\* one call api.get_exchange_tickers(exchanges) on the process's StockDataAPI:
\* the exchange listings (lines 24-50), the directory (line 53, fetched by
\* lines 145-158 when not cached), the filter and the shuffle (lines 56-62)
CallGetExchangeTickers ==
    /\ \E exchanges \in ExchangeLists, valid_tickers \in SUBSET Tickers :
          \/ \* the listings raise; nothing else was touched
             /\ UNCHANGED <<apiVars, all_tickers_df>>
          \/ /\ KnownExchanges(exchanges)
             /\ directory_reads < MaxReads
             /\ directory_reads' = directory_reads + 1
             /\ IF NeedsFetch(macrotrends_tickers)
                THEN /\ directory_fetches < MaxFetches
                     /\ directory_fetches' = directory_fetches + 1
                     /\ \/ \* the request or the parsing raises: nothing is cached
                           UNCHANGED <<macrotrends_tickers, all_tickers_df>>
                        \/ \E listed \in SUBSET Tickers :
                              /\ macrotrends_tickers' = [cached |-> TRUE, value |-> listed]
                              /\ all_tickers_df' \in SampleOrders(listed \cap valid_tickers)
                ELSE /\ UNCHANGED <<macrotrends_tickers, directory_fetches>>
                     /\ all_tickers_df' \in
                           SampleOrders(macrotrends_tickers.value \cap valid_tickers)
    /\ UNCHANGED <<runState, retries, wait_time, pc, i, progVars, hist, cur,
                   open_conns, clock, gap, ptrace, poll_exit, failStreak,
                   streakWaits, firstHist, lastCur, conflicts, screenVars>>

DirectorySpec == Init /\ [][CallGetExchangeTickers]_vars


\* ==================================================================== claims

\* C8: history storage is ignore-on-conflict. After any sequence of
\* store_report_dataframes calls the table holds at most one row per
\* (symbol, date), a key is stored exactly when some committed call carried
\* it, and the stored row is the first row ever committed for the key, so a
\* later row with the same key, equal or different, changes nothing.
C8_IgnoreOnConflict ==
    /\ \A r1, r2 \in hist : HistKey(r1) = HistKey(r2) => r1 = r2
    /\ {HistKey(r) : r \in hist} = DOMAIN firstHist
    /\ \A r \in hist : r = firstHist[HistKey(r)]

\* C8 witness: a key was committed first with its P/E absent, a call carrying
\* the same key with the P/E present came later, and the stored row still has
\* the P/E absent
C8_Witness ==
    \E r \in hist :
        /\ r.pe_ratio = NaN
        /\ r.symbol # NaN
        /\ HistKey(r) \in conflicts
        /\ Cardinality(hist) >= 2

\* C9: current-ratio storage is update-on-conflict. After any sequence of
\* store_current_ratio_dataframes calls the table holds exactly one row per
\* symbol ever committed, and that row is the one of the most recent committed
\* store for the symbol (last_update, pb_ratio, pe_ratio); rows of the other
\* symbols are as their own latest store left them.
C9_UpdateOnConflict ==
    /\ \A r1, r2 \in cur : r1.symbol = r2.symbol => r1 = r2
    /\ {r.symbol : r \in cur} = DOMAIN lastCur
    /\ \A r \in cur : r = lastCur[r.symbol]

\* C9 witness: a symbol stored at time 1 was stored again later, and the other
\* symbol still carries its own earlier snapshot
C9_Witness ==
    /\ Cardinality(cur) >= 2
    /\ \E r \in cur : r.last_update > 1 /\ r.symbol \in conflicts
    /\ \E r \in cur : r.last_update = 1 /\ r.symbol \notin conflicts


\* ---------------------------------------------------- the batch, per ticker
Pos(t) == CHOOSE k \in 1..Len(all_tickers_df) : all_tickers_df[k] = t

InBatch == pc \in {"for", "pb", "pe", "concat", "append", "store_report", "store_current"}

\* the iteration of t is over
Processed(t) == InBatch /\ Pos(t) < i

\* a fetch request is sent in this step
PBRequest(t) == ptrace[t].pb = "none" /\ ptrace'[t].pb # "none"
PERequest(t) == ptrace[t].pe = "none" /\ ptrace'[t].pe # "none"

\* C1: per-ticker isolation in one batch. A failed P/B or P/E fetch of one
\* ticker never leaves poll_tickers as an exception (the only exception a
\* single ticker's fetch can cause here is the NameError), and every ticker
\* whose two fetches and merge succeeded and whose iteration is over has had
\* its history rows and its snapshot committed, unless storage itself failed.
C1_Isolation ==
    /\ poll_exit # "NameError"
    /\ \A t \in Tickers :
          (Processed(t) /\ ptrace[t].pb = "ok" /\ ptrace[t].pe = "ok"
              /\ ptrace[t].merge = "ok")
          => /\ ptrace[t].report \in {"ok", "fail"}
             /\ ptrace[t].current \in {"ok", "fail"}

\* C2: when the P/B fetch of a ticker succeeded and its P/E fetch failed, the
\* history rows and the snapshot row handed to storage for the ticker carry no
\* P/E value.
C2_PEAbsent ==
    (pc = "store_report" /\ ptrace[Ticker].pb = "ok" /\ ptrace[Ticker].pe = "fail")
    => /\ current_ratio_rows[Len(current_ratio_rows)].pe_ratio = NaN
       /\ "concat_df" \in bound
          => \A k \in 1..Len(concat_df) :
                concat_df[k].ttm_net_eps = NaN /\ concat_df[k].pe_ratio = NaN

\* C3: a failed P/B fetch skips the ticker. No P/E fetch, merge, history write
\* or snapshot write is made for it in the batch, the failing step leaves both
\* tables and the snapshot list as they were, and the loop goes on to the next
\* ticker.
C3_SkippedState ==
    \A t \in Tickers :
        ptrace[t].pb = "fail"
        => /\ ptrace[t].pe = "none"
           /\ ptrace[t].merge = "none"
           /\ ptrace[t].report = "none"
           /\ ptrace[t].current = "none"
           /\ Processed(t)

C3_SkipStep ==
    \A t \in Tickers :
        (PBRequest(t) /\ ptrace'[t].pb = "fail")
        => /\ hist' = hist
           /\ cur' = cur
           /\ current_ratio_rows' = current_ratio_rows
           /\ runState' = "Polling"
           /\ pc' = "for"
           /\ i' = i + 1

C3_SkipOnPBFailure == []C3_SkippedState /\ [][C3_SkipStep]_vars

\* C3 witness: a ticker was skipped after a failed P/B fetch and the ticker
\* after it has been fetched and stored in the same batch
C3_Witness ==
    \E t, u \in Tickers :
        /\ InBatch
        /\ ptrace[t].pb = "fail"
        /\ Pos(t) < Pos(u)
        /\ ptrace[u].report = "ok"
        /\ ptrace[u].current = "ok"

\* C4: between two consecutive fetch requests of a batch there is a sleep of
\* base_ratelimit + uniform(ratelimit_buffer): whenever a request is sent and
\* is not the first of the batch, such a sleep has passed since the previous
\* request.
C4_DelayStep ==
    (\E t \in Tickers : PBRequest(t) \/ PERequest(t))
    => gap \in SleepTimes \cup {Unset}

C4_DelayBetweenRequests == [][C4_DelayStep]_vars


\* ------------------------------------------------------------ the merge step
PBFieldsOf(r) ==
    <<r.symbol, r.name, r.stock_price, r.book_value_per_share, r.price_to_book_ratio>>

PEFieldsOf(r) == <<r.ttm_net_eps, r.pe_ratio>>

\* C11: merge correctness. For a ticker whose P/B and P/E fetches both
\* succeeded, with one observation per date on each side, the merge succeeds
\* and the frame handed to storage is the outer join on date: one row for
\* every date of either side and no other; on a date the row carries the P/B
\* fields of the P/B observation of that date unaltered, or NaN where there is
\* none, and likewise the P/E fields; NaN is not zero.
C11_OuterJoin ==
    (/\ pc \in {"append", "store_report"}
     /\ ptrace[Ticker].pb = "ok"
     /\ ptrace[Ticker].pe = "ok"
     /\ IsUnique(Idx(pb_history_df))
     /\ IsUnique(Idx(pe_history_df)))
    => /\ ptrace[Ticker].merge = "ok"
       /\ Rows(Idx(concat_df)) = Rows(Idx(pb_history_df)) \cup Rows(Idx(pe_history_df))
       /\ IsUnique(Idx(concat_df))
       /\ NaN # 0
       /\ \A k \in 1..Len(concat_df) :
             LET r == concat_df[k]
                 bs == {b \in Rows(pb_history_df) : b.date = r.date}
                 es == {e \in Rows(pe_history_df) : e.date = r.date}
             IN  /\ \A b \in bs : PBFieldsOf(r) = PBFieldsOf(b)
                 /\ bs = {} => PBFieldsOf(r) = <<NaN, NaN, NaN, NaN, NaN>>
                 /\ \A e \in es : PEFieldsOf(r) = PEFieldsOf(e)
                 /\ es = {} => PEFieldsOf(r) = <<NaN, NaN>>

\* C11 witness: a committed history row of a ticker whose two fetches
\* succeeded carries the P/B values of a date that the P/E series lacks, with
\* the P/E fields absent
C11_Witness ==
    /\ InBatch
    /\ \E r \in hist :
          /\ r.symbol \in Tickers
          /\ ptrace[r.symbol].pe = "ok"
          /\ ptrace[r.symbol].report = "ok"
          /\ r.price_to_book_ratio = PBValue(r.symbol, r.date)
          /\ r.pe_ratio = NaN
          /\ r.ttm_net_eps = NaN

\* C20: every history row handed to storage while ticker T is processed was
\* merged for T in this iteration and carries T's symbol and name.
C20_OwnRows ==
    (pc = "store_report" /\ "concat_df" \in bound)
    => /\ ptrace[Ticker].merge = "ok"
       /\ \A k \in 1..Len(concat_df) :
             /\ concat_df[k].symbol = Ticker
             /\ concat_df[k].name = FullName(Ticker)


\* ------------------------------------------------------------ the run loop
Ended == runState \in {"Stopped", "Raised"}

\* run stopped because the retries were used up (and not on a KeyboardInterrupt)
StoppedByExhaustion == runState = "Stopped" /\ poll_exit # "KeyboardInterrupt"

\* C5: bounded batch retry. The retry counter is the number of batches failed
\* in a row (incremented by each failure, reset by each batch that returns),
\* it stays in 0..max_retries+1, the loop waits in Backoff only with a counter
\* in 1..max_retries, it stops by exhaustion exactly when max_retries+1 batches
\* in a row have failed, Backoff leads back to Polling only with a counter
\* <= max_retries, nothing happens after Stopped, and unless some batch
\* returns normally the loop eventually ends.
C5_Counter ==
    /\ retries \in 0..(max_retries + 1)
    /\ retries = failStreak
    /\ runState = "Backoff" => retries \in 1..max_retries
    /\ (~Ended /\ pc = "run" /\ poll_exit = "returned") => retries = 0
    /\ StoppedByExhaustion <=> failStreak = max_retries + 1

C5_Moves ==
    /\ (runState = "Backoff" /\ runState' = "Polling") => retries <= max_retries
    /\ (runState = "Polling" /\ runState' = "Backoff")
       => (retries' = retries + 1 /\ retries' <= max_retries)
    /\ poll_exit' = "returned" => retries' = 0
    /\ Ended => UNCHANGED vars

C5_StopsOrSucceeds == <>(Ended \/ poll_exit = "returned")

C5_BoundedRetry == []C5_Counter /\ [][C5_Moves]_vars /\ C5_StopsOrSucceeds

\* C5 witness: the loop stopped by exhaustion after max_retries+1 failures in
\* a row that followed a batch which had changed the tables
C5_Witness ==
    /\ StoppedByExhaustion
    /\ retries = max_retries + 1
    /\ hist # {}

\* C6: exponential backoff. The k-th wait of a failure streak lasts
\* base_wait_time * 2^k seconds (10, 20, 40, 80, 160), each the double of the
\* one before; a streak has as many waits as failures while the loop goes on
\* and one less while the loop is waiting or has stopped by exhaustion (no
\* wait follows the failure that exceeds the maximum); the streak starts anew
\* after a batch that returns.
ExpectedWaits == <<10, 20, 40, 80, 160>>

C6_Backoff ==
    /\ Len(streakWaits) <= max_retries
    /\ \A k \in 1..Len(streakWaits) :
          /\ streakWaits[k] = base_wait_time * (2 ^ k)
          /\ streakWaits[k] = ExpectedWaits[k]
          /\ k > 1 => streakWaits[k] = 2 * streakWaits[k - 1]
    /\ runState = "Polling" => Len(streakWaits) = failStreak
    /\ runState = "Backoff"
       => /\ Len(streakWaits) = failStreak - 1
          /\ wait_time = ExpectedWaits[failStreak]
    /\ StoppedByExhaustion => Len(streakWaits) = max_retries
    /\ (runState = "Polling" /\ pc = "run" /\ poll_exit = "returned")
       => streakWaits = <<>>

\* C6 witness: the five waits of a full streak were slept and the sixth
\* failure stopped the loop
C6_Witness ==
    /\ StoppedByExhaustion
    /\ streakWaits = ExpectedWaits

\* C7: a KeyboardInterrupt that arrives while run executes makes run return:
\* no exception leaves run.
C7_CleanCancel == runState # "Raised"

\* C10: isolated persistence calls. Once the history write of a ticker was
\* attempted (committed, failed, or refused for want of a frame) the snapshot
\* write is attempted too; a failed write leaves both tables as they were and
\* the loop goes on; no step of a batch removes a committed history row or
\* touches the snapshot of another symbol than the one being stored.
C10_BothAttempted ==
    \A t \in Tickers :
        ptrace[t].report # "none"
        => \/ ptrace[t].current \in {"ok", "fail"}
           \/ (pc = "store_current" /\ Ticker = t /\ runState = "Polling")

C10_FailureStep ==
    \A t \in Tickers :
        /\ (ptrace[t].report = "none" /\ ptrace'[t].report # "none")
           => /\ pc' = "store_current"
              /\ runState' = "Polling"
              /\ ptrace'[t].report # "ok" => (hist' = hist /\ cur' = cur)
        /\ (ptrace[t].current = "none" /\ ptrace'[t].current # "none")
           => /\ pc' = "for"
              /\ i' = i + 1
              /\ runState' = "Polling"
              /\ ptrace'[t].current = "fail" => (hist' = hist /\ cur' = cur)
              /\ \A r \in cur : r.symbol # t => r \in cur'

C10_Kept == hist \subseteq hist' /\ {r.symbol : r \in cur} \subseteq {r.symbol : r \in cur'}

C10_IsolatedPersistence ==
    []C10_BothAttempted /\ [][C10_FailureStep /\ C10_Kept]_vars

\* C10 witness: the history write of the second ticker failed, its snapshot
\* write was committed all the same, and the rows of the first ticker are
\* still stored
C10_Witness ==
    \E t, u \in Tickers :
        /\ InBatch
        /\ Pos(t) < Pos(u)
        /\ ptrace[t].report = "ok"
        /\ ptrace[u].report = "fail"
        /\ ptrace[u].current = "ok"
        /\ \E r \in hist : r.symbol = t
        /\ \E r \in cur : r.symbol = u

\* ------------------------------------------------------------- the screener
\* screen_stocks has been called
Screened == screen_returned

\* the window, told from the caller's rows: not of the current year, and less
\* than ten years older than the most recent such year of any symbol
PastYears == {Year(historic_data[k].date) : k \in 1..Len(historic_data)} \ {NowYear}

InWindow(row) ==
    /\ Year(row.date) # NowYear
    /\ Year(row.date) > MaxOf(PastYears) - 10

WindowRows(sym) == {r \in Rows(historic_data) : r.symbol = sym /\ InWindow(r)}

\* latest <= margin * avg, the average being a defined fraction
WithinMargin(latest, avg) == latest * 100 * avg[2] <= criteria.pb_margin_of_safety * avg[1]

\* C12: an undefined average never lets the margin of safety pass. A symbol
\* with no P/B value among its windowed rows of the last three years, or none
\* at all, fails the margin-of-safety check and is not in the qualifying set.
C12_UndefinedAverageDisqualifies ==
    Screened
    => \A sym \in DOMAIN strace :
          LET last == MaxOf({r.date : r \in WindowRows(sym)})
          IN  (\A r \in WindowRows(sym) :
                   r.date > last - 3 * 365 => r.price_to_book_ratio = NaN)
              => /\ "pb_margin_of_safety" \in strace[sym].failed
                 /\ sym \notin screened_symbols

WindowYears(sym) == {Year(r.date) : r \in WindowRows(sym)}

\* the chronologically latest windowed row of the symbol within year y
LatestRowOfYear(sym, y) ==
    CHOOSE r \in WindowRows(sym) :
        /\ Year(r.date) = y
        /\ \A q \in WindowRows(sym) : Year(q.date) = y => q.date <= r.date

\* C14: P/E positivity depth. Per symbol and calendar year of its windowed
\* rows the P/E considered is that of the latest row of the year (a year whose
\* latest row has no P/E does not count), and the check passes exactly when
\* the years with a value > 0 number at least years_positive_pe_history.
C14_LatestPEPerYear ==
    Screened
    => \A sym \in DOMAIN strace :
          LET positive == {y \in WindowYears(sym) :
                              /\ LatestRowOfYear(sym, y).pe_ratio # NaN
                              /\ LatestRowOfYear(sym, y).pe_ratio > 0}
          IN  "years_positive_pe_history" \notin strace[sym].failed
              <=> Cardinality(positive) >= criteria.years_positive_pe_history

\* C15: source of the current ratios. With a row for the symbol in the
\* current-ratio frame both the current P/B and the current P/E are that
\* row's; without one both are those of the latest row by date of the symbol
\* group, in whatever order the rows came; the two ceiling checks test these
\* values.
C15_CurrentRatioSource ==
    Screened
    => \A sym \in DOMAIN strace :
          LET e == strace[sym]
              snaps == {c \in Rows(current_data) : c.symbol = sym}
              newest == CHOOSE r \in WindowRows(sym) :
                            \A q \in WindowRows(sym) : q.date <= r.date
          IN  /\ \A c \in snaps :
                    /\ e.latest_pb_ratio = c.pb_ratio
                    /\ e.latest_pe_ratio = c.pe_ratio
              /\ snaps = {}
                 => /\ e.latest_pb_ratio = newest.price_to_book_ratio
                    /\ e.latest_pe_ratio = newest.pe_ratio
              /\ e.latest_pb_ratio # NaN
                 => ("max_current_pb_ratio" \in e.failed
                     <=> e.latest_pb_ratio >= criteria.max_current_pb_ratio)
              /\ e.latest_pe_ratio # NaN
                 => ("max_current_pe_ratio" \in e.failed
                     <=> e.latest_pe_ratio >= criteria.max_current_pe_ratio)

\* C15 witness: a symbol without snapshot whose rows came newest first (the
\* last row of the frame is not the latest by date) and whose latest row alone
\* is at the ceiling, next to a symbol judged by its snapshot
C15_Witness ==
    /\ Screened
    /\ \E sym \in DOMAIN strace :
          LET e == strace[sym]
          IN  /\ ~e.use_current_ratios
              /\ Len(e.group) >= 2
              /\ e.group[Len(e.group)].date < e.group[1].date
              /\ e.group[Len(e.group)].price_to_book_ratio # e.latest_pb_ratio
              /\ e.latest_pb_ratio = criteria.max_current_pb_ratio
              /\ "max_current_pb_ratio" \in e.failed


\* C16: history depth. A symbol whose windowed rows (not of the current year,
\* less than ten years older than the most recent year) span fewer distinct
\* calendar years than years_pb_history is not in the qualifying set; a symbol
\* of the frame with no row in the window is not either.
C16_HistoryDepth ==
    Screened
    => \A sym \in {r.symbol : r \in Rows(historic_data)} :
          (PastYears = {} \/ Cardinality(WindowYears(sym)) < criteria.years_pb_history)
          => sym \notin screened_symbols

\* C16 witness: a symbol with rows of two calendar years, one of them outside
\* the window, is excluded by the depth check alone
C16_Witness ==
    /\ Screened
    /\ \E sym \in DOMAIN strace :
          /\ strace[sym].failed = {"years_pb_history"}
          /\ Cardinality(WindowYears(sym)) = 1
          /\ Cardinality({Year(r.date) : r \in {q \in Rows(historic_data) : q.symbol = sym}}) >= 2
          /\ sym \notin screened_symbols

\* C17: positivity toggle. With only_positive_pb set, a symbol with a
\* windowed P/B value <= 0 is excluded; with the toggle off the check never
\* fails, so the qualifying set is that of the five other checks.
C17_PositivityToggle ==
    Screened
    => \A sym \in DOMAIN strace :
          /\ (criteria.only_positive_pb
                /\ \E r \in WindowRows(sym) :
                      r.price_to_book_ratio # NaN /\ r.price_to_book_ratio <= 0)
             => sym \notin screened_symbols
          /\ ~criteria.only_positive_pb
             => /\ "only_positive_pb" \notin strace[sym].failed
                /\ sym \in screened_symbols
                   <=> strace[sym].failed \ {"only_positive_pb"} = {}

\* C17 witness: with the toggle off a symbol with a P/B of zero in the window
\* qualifies
C17_Witness ==
    /\ Screened
    /\ ~criteria.only_positive_pb
    /\ \E sym \in screened_symbols :
          \E r \in WindowRows(sym) : r.price_to_book_ratio = 0

\* C19: screen_stocks is read-only over its arguments. A call leaves the
\* history frame, the current-ratio frame and the criteria as they were.
C19_ReadOnlyStep ==
    /\ historic_data' = historic_data
    /\ current_data' = current_data
    /\ criteria' = criteria

C19_ReadOnly == [][C19_ReadOnlyStep]_vars


\* ------------------------------------------------------ the ticker directory
\* C18 as stated: over any sequence of get_exchange_tickers calls the fetch of
\* the provider's directory is performed at most once.
C18_SingleFetch == directory_fetches <= 1

\* C18: the directory is fetched until a fetch succeeds and never after. A
\* read fetches exactly when nothing is cached; a fetch that fails caches
\* nothing, so the next read fetches again; once a fetch succeeded the cached
\* directory stays as it is and no later call sends the request.
C18_FetchStep ==
    /\ macrotrends_tickers.cached
       => /\ macrotrends_tickers' = macrotrends_tickers
          /\ directory_fetches' = directory_fetches
    /\ (~macrotrends_tickers.cached /\ directory_reads' # directory_reads)
       => directory_fetches' = directory_fetches + 1
    /\ directory_fetches' \in {directory_fetches, directory_fetches + 1}

C18_FetchedUntilCached ==
    /\ [](directory_fetches <= directory_reads)
    /\ [](macrotrends_tickers.cached => directory_fetches >= 1)
    /\ [][C18_FetchStep]_vars

\* C18 witness: the first fetch failed, the second succeeded, and later calls
\* read the cached directory
C18_Witness ==
    /\ macrotrends_tickers.cached
    /\ directory_fetches = 2
    /\ directory_reads >= 4
    /\ all_tickers_df # <<>>

(* ---------------- the connection of a batch ---------------- *)

\* lines 44-112: control is inside the body of the with statement of
\* poll_tickers, between __enter__ having returned and __exit__
InsideWith ==
    /\ runState = "Polling"
    /\ pc \in {"for", "pb", "pe", "concat", "append", "store_report",
               "store_current"}

\* C21: connection lifecycle. Every connection opened for a batch is closed
\* by the time poll_tickers returns or raises, on every path (a failure of
\* table creation inside __enter__, a systemic exception in the ticker loop,
\* cancellation): at most one connection is open at any time, none is open
\* while no batch is inside its with block, and none once run has stopped.
C21_ConnectionLifecycle ==
    /\ open_conns <= 1
    /\ ~InsideWith => open_conns = 0


====
